---- MODULE Spec2Model ----
(***************************************************************************)
(* Flight-delay service of challenge/model.py (DelayModel) and             *)
(* challenge/api.py (POST /predict).                                       *)
(*                                                                         *)
(* Strings that the code takes apart or glues together (column names such  *)
(* as "OPERA_Grupo LATAM") are sequences of tokens: "OPERA_" \o name.       *)
(* Timestamps '%Y-%m-%d %H:%M:%S' are records of their six fields.         *)
(* A pandas frame is a record [columns, rows]; rows are sequences of cells. *)
(***************************************************************************)
EXTENDS Integers, Sequences, FiniteSets, TLC

VARIABLES
    modelFile,      \* data/model.h5: the pickled classifier, or absent
    featuresFile,   \* data/all_features.p: the pickled one-hot frame, or absent
    ret,            \* what the last call (preprocess, fit, POST /predict) returned
    arg,            \* input of the feature-engineering function under check
    out             \* its result, once applied

vars == <<modelFile, featuresFile, ret, arg, out>>

(***************************************************************************)
(* Bounds of the model.                                                    *)
(***************************************************************************)
MaxBatch == 2       \* flights per /predict request
MaxPool == 6        \* rows of the raw data pool that training sets are cut from
MaxYears == 2       \* calendar years of the timestamps, from FirstYear
TrainRows == 5      \* rows of the training set used while serving

FirstYear == 2023

(***************************************************************************)
(* Shapes of the data: a timestamp, a raw row of the training data         *)
(* (Fecha-I scheduled, Fecha-O actual departure), a flight of a request.   *)
(***************************************************************************)
T(y, mo, d, h, mi, s) ==
    [year |-> y, month |-> mo, day |-> d, hour |-> h, minute |-> mi, second |-> s]

Row(fi, fo, opera, tipo, mes) ==
    [Fecha_I |-> fi, Fecha_O |-> fo, OPERA |-> opera, TIPOVUELO |-> tipo, MES |-> mes]

Flight(opera, tipo, mes) == [OPERA |-> opera, TIPOVUELO |-> tipo, MES |-> mes]

(***************************************************************************)
(* datetime: ordering, subtraction.                                        *)
(***************************************************************************)

IsLeap(y) == (y % 4 = 0) /\ ((y % 100 # 0) \/ (y % 400 = 0))

DaysInMonth(y, mo) ==
    IF mo = 2 THEN (IF IsLeap(y) THEN 29 ELSE 28)
    ELSE IF mo \in {4, 6, 9, 11} THEN 30 ELSE 31

RECURSIVE DaysBeforeMonth(_, _)
DaysBeforeMonth(y, mo) ==
    IF mo = 1 THEN 0 ELSE DaysBeforeMonth(y, mo - 1) + DaysInMonth(y, mo - 1)

DaysBeforeYear(y) ==
    LET p == y - 1 IN p * 365 + (p \div 4) - (p \div 100) + (p \div 400)

\* date.toordinal()
ToOrdinal(t) == DaysBeforeYear(t.year) + DaysBeforeMonth(t.year, t.month) + t.day

\* datetime.time() as seconds since midnight
TimeOfDay(t) == t.hour * 3600 + t.minute * 60 + t.second

\* datetime.strptime("HH:MM", '%H:%M').time()
HM(h, mi) == h * 3600 + mi * 60

\* datetime.strptime('D-Mon', '%d-%b').replace(year = y): midnight of that day
DayMonth(d, mo, y) == T(y, mo, d, 0, 0, 0)

\* datetime < and <= : field by field, year first
DtKey(t) == <<t.year, t.month, t.day, t.hour, t.minute, t.second>>

RECURSIVE LexLess(_, _)
LexLess(a, b) ==
    IF a = <<>> THEN FALSE
    ELSE IF Head(a) # Head(b) THEN Head(a) < Head(b)
    ELSE LexLess(Tail(a), Tail(b))

DtLe(a, b) == (a = b) \/ LexLess(DtKey(a), DtKey(b))

\* (a - b).total_seconds()
TotalSeconds(a, b) ==
    (ToOrdinal(a) - ToOrdinal(b)) * 86400 + (TimeOfDay(a) - TimeOfDay(b))

(***************************************************************************)
(* DelayModel: constants of __init__.                                      *)
(***************************************************************************)
THRESHOLD_IN_MINUTES == 15

(***************************************************************************)
(* DelayModel.get_period_day: 'mañana' (written "manana"), 'tarde',        *)
(* 'noche', or None when no branch is taken.                               *)
(***************************************************************************)
None == [none |-> TRUE]

get_period_day(date) ==
    LET date_time == TimeOfDay(date)
        morning_min == HM(5, 0)
        morning_max == HM(11, 59)
        afternoon_min == HM(12, 0)
        afternoon_max == HM(18, 59)
        evening_min == HM(19, 0)
        evening_max == HM(23, 59)
        night_min == HM(0, 0)
        night_max == HM(4, 59)
    IN  IF date_time > morning_min /\ date_time < morning_max THEN [v |-> "manana"]
        ELSE IF date_time > afternoon_min /\ date_time < afternoon_max THEN [v |-> "tarde"]
        ELSE IF \/ (date_time > evening_min /\ date_time < evening_max)
                \/ (date_time > night_min /\ date_time < night_max)
             THEN [v |-> "noche"]
        ELSE None

(***************************************************************************)
(* DelayModel.is_high_season                                               *)
(***************************************************************************)
is_high_season(fecha) ==
    LET fecha_anio == fecha.year
        range1_min == DayMonth(15, 12, fecha_anio)
        range1_max == DayMonth(31, 12, fecha_anio)
        range2_min == DayMonth(1, 1, fecha_anio)
        range2_max == DayMonth(3, 3, fecha_anio)
        range3_min == DayMonth(15, 7, fecha_anio)
        range3_max == DayMonth(31, 7, fecha_anio)
        range4_min == DayMonth(11, 9, fecha_anio)
        range4_max == DayMonth(30, 9, fecha_anio)
    IN  IF \/ (DtLe(range1_min, fecha) /\ DtLe(fecha, range1_max))
           \/ (DtLe(range2_min, fecha) /\ DtLe(fecha, range2_max))
           \/ (DtLe(range3_min, fecha) /\ DtLe(fecha, range3_max))
           \/ (DtLe(range4_min, fecha) /\ DtLe(fecha, range4_max))
        THEN 1 ELSE 0

(***************************************************************************)
(* DelayModel.get_min_diff: total_seconds()/60, kept as the exact fraction *)
(* num/den; and the label of preprocess, np.where(min_diff > 15, 1, 0).    *)
(***************************************************************************)
\* the difference cut to whole minutes
get_min_diff_whole_minutes(data) ==
    [num |-> TotalSeconds(data.Fecha_O, data.Fecha_I) \div 60, den |-> 1]

get_min_diff(data) ==
    LET fecha_o == data.Fecha_O
        fecha_i == data.Fecha_I
    IN  [num |-> TotalSeconds(fecha_o, fecha_i), den |-> 60]

\* q > n for a fraction q with positive denominator
FracGreater(q, n) == q.num > n * q.den

delay(min_diff) == IF FracGreater(min_diff, THRESHOLD_IN_MINUTES) THEN 1 ELSE 0

(***************************************************************************)
(* Column names and one-hot encoding (pd.get_dummies, pd.concat).          *)
(* A name is a sequence of tokens; an airline called "OPERA_Sur" is        *)
(* <<"OPERA_", "Sur">>, so that str.replace('OPERA_', '') acts on it as it  *)
(* does on the prefix.                                                     *)
(***************************************************************************)
Col(prefix, name) == <<prefix>> \o name

LAW == <<"Latin American Wings">>
LATAM == <<"Grupo LATAM">>
SKY == <<"Sky Airline">>
COPA == <<"Copa Air">>
AMERICAN == <<"American Airlines">>
OPERA_SUR == <<"OPERA_", "Sur">>
SUR == <<"Sur">>
ZETA == <<"Zeta Air">>

\* str(n) of a month number
MonthStr(n) ==
    <<(<<"1", "2", "3", "4", "5", "6", "7", "8", "9", "10", "11", "12">>)[n]>>

TipoStr(t) == <<t>>

OperaStr(o) == o

\* the values of each column in the order sorted() gives them
OperaSorted == <<AMERICAN, COPA, LATAM, LAW, OPERA_SUR, SKY, SUR, ZETA>>
TipoSorted == <<"I", "N">>
MesSorted == <<1, 2, 3, 4, 5, 6, 7, 8, 9, 10, 11, 12>>

top_10_features ==
    << Col("OPERA_", LAW),
       Col("MES_", MonthStr(7)),
       Col("MES_", MonthStr(10)),
       Col("OPERA_", LATAM),
       Col("MES_", MonthStr(12)),
       Col("TIPOVUELO_", TipoStr("I")),
       Col("MES_", MonthStr(4)),
       Col("MES_", MonthStr(11)),
       Col("OPERA_", SKY),
       Col("OPERA_", COPA) >>

Range(s) == {s[i] : i \in 1..Len(s)}

\* list.index(x): the first position of x
Index(s, x) == CHOOSE i \in 1..Len(s) : s[i] = x /\ \A j \in 1..(i - 1) : s[j] # x

\* pd.get_dummies(series, prefix): one column per distinct value, sorted; str
\* gives the text of a value
get_dummies(values, prefix, sorted, str) ==
    LET Present(v) == \E i \in 1..Len(values) : values[i] = v
        uniq == SelectSeq(sorted, Present)
    IN  [columns |-> [j \in 1..Len(uniq) |-> Col(prefix, str[uniq[j]])],
         rows |-> [i \in 1..Len(values) |->
                     [j \in 1..Len(uniq) |-> IF values[i] = uniq[j] THEN 1 ELSE 0]]]

\* pd.concat([a, b, c], axis = 1) of frames with the same rows
concat3(a, b, c) ==
    [columns |-> a.columns \o b.columns \o c.columns,
     rows |-> [i \in 1..Len(a.rows) |-> a.rows[i] \o b.rows[i] \o c.rows[i]]]

Column(rows, name) == [i \in 1..Len(rows) |-> rows[i][name]]

\* the one-hot frame of OPERA, TIPOVUELO, MES (model.py 79-84 and 273-278)
one_hot(rows) ==
    concat3(get_dummies(Column(rows, "OPERA"), "OPERA_", OperaSorted,
                        [v \in Range(OperaSorted) |-> OperaStr(v)]),
            get_dummies(Column(rows, "TIPOVUELO"), "TIPOVUELO_", TipoSorted,
                        [v \in Range(TipoSorted) |-> TipoStr(v)]),
            get_dummies(Column(rows, "MES"), "MES_", MesSorted,
                        [v \in Range(MesSorted) |-> MonthStr(v)]))

\* features[self.top_10_features]: KeyError unless every name is a column
select_columns(features, names) ==
    IF \A k \in 1..Len(names) : names[k] \in Range(features.columns)
    THEN [status |-> "ok",
          frame |-> [columns |-> names,
                     rows |-> [i \in 1..Len(features.rows) |->
                                 [k \in 1..Len(names) |->
                                    features.rows[i][Index(features.columns, names[k])]]]]]
    ELSE [status |-> "KeyError", frame |-> None]

(***************************************************************************)
(* The classifier (sklearn LogisticRegression, an external capability): a  *)
(* linear decision function over the ten columns. fit may return any of    *)
(* Classifiers; it records the class weights it was given.                 *)
(***************************************************************************)
Classifiers ==
    { [coef_ |-> <<1, 1, 1, -1, 1, 1, 0, 0, -1, 0>>, intercept_ |-> 0],
      [coef_ |-> <<-1, -1, 0, -1, 0, -1, 1, 0, 0, -1>>, intercept_ |-> 1] }

RECURSIVE Dot(_, _)
Dot(w, x) == IF w = <<>> THEN 0 ELSE Head(w) * Head(x) + Dot(Tail(w), Tail(x))

\* LogisticRegression.predict of one row
classify(model, x) == IF Dot(model.coef_, x) + model.intercept_ > 0 THEN 1 ELSE 0

\* DelayModel.__init__: the model of data/model.h5, or None when it cannot be read
load_model(file) == IF file = None THEN None ELSE file

\* a predict that answers 0 for every row when there is no model
predict_without_model(self_model, features) ==
    [status |-> "ok",
     labels |-> [i \in 1..Len(features.rows) |->
                   IF self_model = None THEN 0 ELSE classify(self_model, features.rows[i])]]

\* DelayModel.predict
predict(self_model, features) ==
    IF self_model = None
    THEN [status |-> "AttributeError", labels |-> <<>>]
    ELSE [status |-> "ok",
          labels |-> [i \in 1..Len(features.rows) |-> classify(self_model, features.rows[i])]]

\* DelayModel.fit with the classifier c that LogisticRegression.fit arrives at
fit(features, target, c) ==
    LET n_y0 == Cardinality({i \in 1..Len(target) : target[i] = 0})
        n_y1 == Cardinality({i \in 1..Len(target) : target[i] = 1})
    IN  [coef_ |-> c.coef_, intercept_ |-> c.intercept_,
         class_weight |-> [one |-> [num |-> n_y0, den |-> Len(target)],
                           zero |-> [num |-> n_y1, den |-> Len(target)]]]

(***************************************************************************)
(* DelayModel.check_response. The phases a request goes through are kept   *)
(* in `trace`: Received, then Rejected (a validation error is returned),   *)
(* or Validated, Encoded, Predicted; Failed when an exception leaves the   *)
(* method.                                                                 *)
(***************************************************************************)
\* col.startswith('OPERA')
StartsWithOpera(col) == col # <<>> /\ Head(col) = "OPERA_"

\* col.replace('OPERA_', ''): every occurrence goes
ReplaceOpera(col) == LET Keep(tok) == tok # "OPERA_" IN SelectSeq(col, Keep)

\* model.py 255-257
replace_opera(features) ==
    LET opera_columns == SelectSeq(features.columns, StartsWithOpera)
    IN  [k \in 1..Len(opera_columns) |-> ReplaceOpera(opera_columns[k])]

\* the if/elif chain of the loop body (model.py 262-267): the tuple returned, or None
check_flight_tipo_first(flight, known) ==
    IF ~(flight.TIPOVUELO = "N" \/ flight.TIPOVUELO = "I")
    THEN [field |-> "TIPOVUELO", message |-> "Column TIPOVUELO not found"]
    ELSE IF flight.MES > 12 \/ flight.MES < 1
    THEN [field |-> "MES", message |-> "Column MES not found"]
    ELSE IF flight.OPERA \notin Range(known)
    THEN [field |-> "OPERA", message |-> "Column OPERA not found"]
    ELSE None

check_flight(flight, known) ==
    IF flight.MES > 12 \/ flight.MES < 1
    THEN [field |-> "MES", message |-> "Column MES not found"]
    ELSE IF ~(flight.TIPOVUELO = "N" \/ flight.TIPOVUELO = "I")
    THEN [field |-> "TIPOVUELO", message |-> "Column TIPOVUELO not found"]
    ELSE IF flight.OPERA \notin Range(known)
    THEN [field |-> "OPERA", message |-> "Column OPERA not found"]
    ELSE None

\* the loop over data.flights (model.py 259-269): returns at the first error
RECURSIVE check_flights_skipping(_, _, _)
check_flights_skipping(flights, known, data_df) ==
    IF flights = <<>> THEN [data_df |-> data_df, error |-> None]
    ELSE IF check_flight(Head(flights), known) # None
         THEN check_flights_skipping(Tail(flights), known, data_df)
         ELSE check_flights_skipping(Tail(flights), known, Append(data_df, Head(flights)))

RECURSIVE check_flights(_, _, _)
check_flights(flights, known, data_df) ==
    IF flights = <<>> THEN [data_df |-> data_df, error |-> None]
    ELSE LET e == check_flight(Head(flights), known)
         IN  IF e # None
             THEN [data_df |-> data_df, error |-> e]
             ELSE check_flights(Tail(flights), known, Append(data_df, Head(flights)))

\* model.py 280-284: one row of zeros, then the first row's cell of each known column
RECURSIVE fill_data_predict(_, _, _)
fill_data_predict(columns, features_df, row) ==
    IF columns = <<>> THEN row
    ELSE LET col == Head(columns)
             next == IF col \in Range(top_10_features)
                     THEN [row EXCEPT ![Index(top_10_features, col)] =
                              features_df.rows[1][Index(features_df.columns, col)]]
                     ELSE row
         IN  fill_data_predict(Tail(columns), features_df, next)

encode(data_df) ==
    LET features_df == one_hot(data_df)
        zeros == [k \in 1..Len(top_10_features) |-> 0]
        data_predict == <<fill_data_predict(features_df.columns, features_df, zeros)>>
    IN  [columns |-> top_10_features, rows |-> data_predict]

Answer(kind, labels, error, exc, df, trace) ==
    [labels |-> labels, error |-> error, kind |-> kind, exc |-> exc, df |-> df,
     trace |-> trace]

check_response(self_model, file, flights) ==
    IF file = None
    THEN Answer("exception", <<>>, None, "FileNotFoundError", None, <<"Received", "Failed">>)
    ELSE
    LET checked == check_flights(flights, replace_opera(file), <<>>)
    IN  IF checked.error # None
        THEN Answer("error", <<>>, checked.error, "", None, <<"Received", "Rejected">>)
        ELSE
        LET df == encode(checked.data_df)
            predicted == predict(self_model, df)
        IN  IF predicted.status # "ok"
            THEN Answer("exception", <<>>, None, predicted.status, df,
                        <<"Received", "Validated", "Encoded", "Failed">>)
            ELSE Answer("labels", predicted.labels, None, "", df,
                        <<"Received", "Validated", "Encoded", "Predicted">>)

\* what data/all_features.p holds after check_response: it is only read (model.py 253)
features_file_dumping_df(file, response) ==
    IF response.df = None THEN file ELSE response.df

features_file_after_check(file, response) == file

(***************************************************************************)
(* api.post_predict: DelayModel() is built for the request, then the       *)
(* answer is turned into the HTTP response.                                *)
(***************************************************************************)
post_predict(model_file, features_file, flights) ==
    LET response == check_response(load_model(model_file), features_file, flights)
    IN  IF response.kind = "exception"
        THEN [status |-> 500, predict |-> <<>>, df |-> response.df,
              trace |-> response.trace, detail |-> "Internal Server Error"]
        ELSE IF response.kind = "error"
        THEN [status |-> 400,
              predict |-> <<>>, df |-> response.df, trace |-> response.trace,
              detail |-> IF response.error.field = "MES"
                           THEN "Value in column MES is incorrect"
                         ELSE IF response.error.field = "TIPOVUELO"
                           THEN "Value in column TIPOVUELO is incorrect"
                         ELSE "Value in column OPERA is incorrect"]
        ELSE [status |-> 200, predict |-> response.labels, df |-> response.df,
              trace |-> Append(response.trace, "Responded"), detail |-> ""]

(***************************************************************************)
(* DelayModel.preprocess: the engineered columns, the one-hot frame, which *)
(* is dumped to data/all_features.p, and then the selection of the ten     *)
(* columns, which raises KeyError when one of them is missing.             *)
(***************************************************************************)
engineer(data) ==
    [i \in 1..Len(data) |->
        [Fecha_I |-> data[i].Fecha_I, Fecha_O |-> data[i].Fecha_O,
         OPERA |-> data[i].OPERA, TIPOVUELO |-> data[i].TIPOVUELO, MES |-> data[i].MES,
         delay |-> delay(get_min_diff(data[i])),
         min_diff |-> get_min_diff(data[i]),
         period_day |-> get_period_day(data[i].Fecha_I),
         high_season |-> is_high_season(data[i].Fecha_I)]]

preprocess(data, target_column) ==
    LET engineered == engineer(data)
        features == one_hot(engineered)
        selected == select_columns(features, top_10_features)
    IN  [data |-> engineered,
         features |-> selected.frame,
         status |-> selected.status,
         target |-> IF selected.status = "ok" /\ target_column # None
                    THEN Column(engineered, "delay") ELSE None,
         dumped |-> features]

(***************************************************************************)
(* Inputs.                                                                 *)
(***************************************************************************)
Years == FirstYear..(FirstYear + MaxYears - 1)

Min(a, b) == IF a < b THEN a ELSE b

\* raw training rows: scheduled and actual departure, airline, type, month
Pool ==
    << Row(T(2023, 7, 15, 5, 0, 0), T(2023, 7, 15, 5, 20, 0), LAW, "I", 7),
       Row(T(2023, 10, 1, 11, 59, 30), T(2023, 10, 1, 12, 14, 30), LATAM, "N", 10),
       Row(T(2023, 12, 31, 23, 50, 0), T(2024, 1, 1, 0, 10, 0), SKY, "I", 12),
       Row(T(2023, 4, 10, 13, 0, 0), T(2023, 4, 10, 12, 55, 0), COPA, "I", 4),
       Row(T(2023, 11, 5, 20, 0, 0), T(2023, 11, 5, 20, 15, 1), AMERICAN, "N", 11),
       Row(T(2024, 1, 20, 3, 0, 0), T(2024, 1, 20, 3, 40, 0), OPERA_SUR, "N", 1),
       Row(T(2024, 3, 3, 18, 59, 0), T(2024, 3, 3, 19, 0, 0), LATAM, "I", 3) >>

PoolSize == Min(MaxPool, Len(Pool))

\* every run of consecutive pool rows is a data set preprocess may be given
DataSets == {SubSeq(Pool, i, j) : i \in 1..PoolSize, j \in 1..PoolSize} \ {<<>>}

\* the training set of the serving specification: the first TrainRows rows,
\* which hold every one of the ten columns
ServingSets == {SubSeq(Pool, 1, Min(TrainRows, PoolSize))}

TargetColumns == {[name |-> "delay"], None}

\* flights of a request: every combination of a good and a bad value of each
\* field (a month above the range with one airline, below it with the other),
\* and a second good flight
Flights ==
    {Flight(LATAM, t, m) : t \in {"I", "X"}, m \in {7, 13}}
        \cup {Flight(ZETA, t, m) : t \in {"I", "X"}, m \in {7, 0}}
        \cup {Flight(AMERICAN, "N", 11)}

RECURSIVE SeqsUpTo(_, _)
SeqsUpTo(S, n) ==
    IF n = 0 THEN {<<>>}
    ELSE LET shorter == SeqsUpTo(S, n - 1)
         IN  shorter \cup {Append(q, x) : q \in shorter, x \in S}

Requests == SeqsUpTo(Flights, MaxBatch)

\* requests sent while data sets of every shape are preprocessed: one flight of
\* each airline, a batch of two, a batch with an invalid record
ProbeRequests ==
    {<<Flight(o, "N", 1)>> : o \in {LATAM, AMERICAN, SUR, OPERA_SUR}}
        \cup {<<Flight(LATAM, "I", 7), Flight(AMERICAN, "N", 11)>>,
              <<Flight(LATAM, "I", 7), Flight(LATAM, "X", 13)>>}

(***************************************************************************)
(* The service: the two files on disk and the result of the last call.     *)
(***************************************************************************)
InitFiles ==
    /\ modelFile = None
    /\ featuresFile = None
    /\ ret = [op |-> "none"]

Init ==
    /\ InitFiles
    /\ arg = None
    /\ out = None

\* preprocess(data, target_column)
Preprocess(data, target_column) ==
    \E r \in {preprocess(data, target_column)} :
        /\ featuresFile' = r.dumped
        /\ ret' = [data |-> r.data, features |-> r.features,
                   status |-> r.status, target |-> r.target, target_column |-> target_column,
                   op |-> "preprocess"]
        /\ UNCHANGED <<modelFile, arg, out>>

\* fit(features, target) on what preprocess returned for a target column
Fit(c) ==
    /\ ret.op = "preprocess"
    /\ ret.status = "ok"
    /\ ret.target # None
    /\ modelFile' = fit(ret.features, ret.target, c)
    /\ ret' = [op |-> "fit"]
    /\ UNCHANGED <<featuresFile, arg, out>>

Served(flights, http, before, first) ==
    [op |-> "post_predict", http |-> http, before |-> before, first |-> first,
     request |-> flights]

\* POST /predict
PostPredict(flights) ==
    \E http \in {post_predict(modelFile, featuresFile, flights)} :
        /\ featuresFile' = features_file_after_check(featuresFile, http)
        /\ ret' = Served(flights, http, [features |-> featuresFile, model |-> modelFile],
                         None)
        /\ UNCHANGED <<modelFile, arg, out>>

\* the same request sent again, right after its first answer
Replay ==
    /\ ret.op = "post_predict"
    /\ ret.first = None
    /\ \E http \in {post_predict(modelFile, featuresFile, ret.request)} :
           /\ featuresFile' = features_file_after_check(featuresFile, http)
           /\ ret' = Served(ret.request, http, ret.before, ret.http)
    /\ UNCHANGED <<modelFile, arg, out>>

\* serving: one training set, requests of up to MaxBatch flights
Next ==
    \/ \E d \in ServingSets, t \in TargetColumns : Preprocess(d, t)
    \/ \E c \in Classifiers : Fit(c)
    \/ \E q \in Requests : PostPredict(q)

Spec == Init /\ [][Next]_vars

\* training: data sets of every shape, a few requests, each of which may be
\* sent a second time
NextTrain ==
    \/ \E d \in DataSets, t \in TargetColumns : Preprocess(d, t)
    \/ \E c \in Classifiers : Fit(c)
    \/ \E q \in ProbeRequests : PostPredict(q)
    \/ Replay

SpecTrain == Init /\ [][NextTrain]_vars

(***************************************************************************)
(* The feature-engineering functions on their own: the input is drawn in   *)
(* the initial state and the function is applied to it once.               *)
(***************************************************************************)
Dates == {<<y, mo, d>> \in Years \X (1..12) \X (1..31) : d <= DaysInMonth(y, mo)}

At(date, h, mi, s) == T(date[1], date[2], date[3], h, mi, s)

\* every day of the years, at midnight, just after, at noon and at the last second
SeasonInputs ==
    {At(date, hms[1], hms[2], hms[3]) :
        date \in Dates, hms \in {<<0, 0, 0>>, <<0, 0, 1>>, <<12, 0, 0>>, <<23, 59, 59>>}}

\* every hour of one day, at the minutes and seconds around the bucket limits
PeriodInputs ==
    {T(FirstYear, 1, 1, h, mi, s) : h \in 0..23, mi \in {0, 1, 30, 58, 59}, s \in {0, 1, 59}}

\* scheduled and actual departures around midnight, year's end, the end of
\* February, and the 15-minute threshold
LabelDays(y) ==
    {<<y, 1, 1>>, <<y, 2, 28>>, <<y, 2, DaysInMonth(y, 2)>>, <<y, 3, 1>>, <<y, 12, 31>>}

LabelInputs ==
    {[Fecha_I |-> fi, Fecha_O |-> fo] :
        fi \in UNION {{At(<<y, 1, 1>>, 10, 0, 0), At(<<y, 2, 28>>, 23, 50, 0),
                       At(<<y, 12, 31>>, 23, 50, 0)} : y \in Years},
        fo \in {At(date, h, mi, s) :
                    date \in UNION {LabelDays(y) : y \in Years},
                    h \in {0, 9, 10, 23}, mi \in {0, 5, 14, 15, 16, 50}, s \in {0, 1, 59}}}

InitFunction(inputs) ==
    /\ InitFiles
    /\ arg \in inputs
    /\ out = None

ApplyIsHighSeason ==
    /\ out = None
    /\ out' = [high_season |-> is_high_season(arg)]
    /\ UNCHANGED <<modelFile, featuresFile, ret, arg>>

ApplyGetPeriodDay ==
    /\ out = None
    /\ out' = [period_day |-> get_period_day(arg)]
    /\ UNCHANGED <<modelFile, featuresFile, ret, arg>>

\* model.py 75 and 77: min_diff, then delay
ApplyDelay ==
    /\ out = None
    /\ \E min_diff \in {get_min_diff(arg)} :
           out' = [delay |-> delay(min_diff), min_diff |-> min_diff]
    /\ UNCHANGED <<modelFile, featuresFile, ret, arg>>

SpecSeason == InitFunction(SeasonInputs) /\ [][ApplyIsHighSeason]_vars

SpecPeriod == InitFunction(PeriodInputs) /\ [][ApplyGetPeriodDay]_vars

SpecLabel == InitFunction(LabelInputs) /\ [][ApplyDelay]_vars

(***************************************************************************)
(* Properties of the feature-engineering functions.                        *)
(***************************************************************************)
\* the date lies in Dec 15-31, Jan 1-Mar 3, Jul 15-31 or Sep 11-30
InSeasonDate(t) ==
    \/ (t.month = 12 /\ t.day >= 15)
    \/ t.month \in {1, 2}
    \/ (t.month = 3 /\ t.day <= 3)
    \/ (t.month = 7 /\ t.day >= 15)
    \/ (t.month = 9 /\ t.day >= 11)

\* C8: is_high_season returns 1 exactly on the dates of the four ranges, first
\* and last day included at every time of day, and 0 on every other date.
C8_HighSeasonWholeDays ==
    out # None => (out.high_season = 1 <=> InSeasonDate(arg))
                    /\ out.high_season \in {0, 1}

\* the timestamp n minutes (n < 60) after t, carried through hour, day, month, year
PlusMinutes(t, n) ==
    LET mi == t.minute + n
        h == t.hour + (mi \div 60)
        d == t.day + (h \div 24)
        over == d > DaysInMonth(t.year, t.month)
        mo == IF over THEN t.month + 1 ELSE t.month
    IN  T(IF mo > 12 THEN t.year + 1 ELSE t.year,
          IF mo > 12 THEN 1 ELSE mo,
          IF over THEN 1 ELSE d,
          h % 24, mi % 60, t.second)

\* the actual departure is later than the scheduled one by more than 15 minutes
MoreThanThresholdLate(row) ==
    LexLess(DtKey(PlusMinutes(row.Fecha_I, 15)), DtKey(row.Fecha_O))

\* C9: the delay label is 1 exactly when the actual departure is more than 15
\* minutes after the scheduled one; exactly 15 minutes, on time or early is 0.
C9_DelayIffMoreThan15Minutes ==
    out # None => /\ out.delay \in {0, 1}
                  /\ out.delay = 1 <=> MoreThanThresholdLate(arg)
                  /\ out.min_diff.num <= 15 * out.min_diff.den => out.delay = 0

\* a flight exactly 15 minutes late has been labelled, with 0
C9_Witness ==
    /\ out # None
    /\ arg.Fecha_O = PlusMinutes(arg.Fecha_I, 15)
    /\ out.delay = 0

Classified(p) == p # None /\ p.v \in {"manana", "tarde", "noche"}

BoundaryInstants ==
    {HM(5, 0), HM(11, 59), HM(12, 0), HM(18, 59), HM(19, 0), HM(23, 59), HM(0, 0), HM(4, 59)}

\* C10: get_period_day gives morning, afternoon, night by strict comparisons;
\* the eight boundary instants get no bucket and every other timestamp gets one.
C10_OnlyBoundaryInstantsUnclassified ==
    out # None =>
        LET t == TimeOfDay(arg)
            p == out.period_day
        IN  /\ (p = [v |-> "manana"]) <=> (HM(5, 0) < t /\ t < HM(11, 59))
            /\ (p = [v |-> "tarde"]) <=> (HM(12, 0) < t /\ t < HM(18, 59))
            /\ (p = [v |-> "noche"]) <=> \/ (HM(19, 0) < t /\ t < HM(23, 59))
                                         \/ (HM(0, 0) < t /\ t < HM(4, 59))
            /\ t \in BoundaryInstants => p = None
            /\ t \notin BoundaryInstants => Classified(p)

(***************************************************************************)
(* Properties of the service. A served request is described by ret:        *)
(* ret.before holds the two files as they were when the request came in.   *)
(***************************************************************************)
ServedRequest == ret.op = "post_predict"

\* the known-airline set the validator derives from the persisted one-hot frame
KnownAirlines(file) == Range(replace_opera(file))

ValidMes(f) == f.MES \in 1..12
ValidTipo(f) == f.TIPOVUELO \in {"N", "I"}
ValidOpera(f, file) == f.OPERA \in KnownAirlines(file)
ValidFlight(f, file) == ValidMes(f) /\ ValidTipo(f) /\ ValidOpera(f, file)

AllValid(flights, file) == \A i \in 1..Len(flights) : ValidFlight(flights[i], file)

\* the field a validation error of the record must name
FirstBadField(f, file) ==
    IF ~ValidMes(f) THEN "MES" ELSE IF ~ValidTipo(f) THEN "TIPOVUELO" ELSE "OPERA"

Names(detail, field) ==
    \/ field = "MES" /\ detail = "Value in column MES is incorrect"
    \/ field = "TIPOVUELO" /\ detail = "Value in column TIPOVUELO is incorrect"
    \/ field = "OPERA" /\ detail = "Value in column OPERA is incorrect"

\* the feature vector of one flight: 1 in each of the ten columns that is one
\* of the flight's three one-hot columns, 0 elsewhere
FeatureVector(f) ==
    [k \in 1..Len(top_10_features) |->
        IF top_10_features[k] \in {Col("OPERA_", f.OPERA),
                                   Col("TIPOVUELO_", <<f.TIPOVUELO>>),
                                   Col("MES_", MonthStr(f.MES))}
        THEN 1 ELSE 0]

\* C1: a batch of n >= 1 valid flights is answered with n labels in {0,1}, the
\* i-th being the classifier's prediction for the i-th flight.
C1_OneLabelPerFlight ==
    (/\ ServedRequest
     /\ ret.before.features # None
     /\ ret.before.model # None
     /\ Len(ret.request) >= 1
     /\ AllValid(ret.request, ret.before.features))
    => /\ ret.http.status = 200
       /\ Len(ret.http.predict) = Len(ret.request)
       /\ \A i \in 1..Len(ret.request) :
            /\ ret.http.predict[i] \in {0, 1}
            /\ ret.http.predict[i] = classify(ret.before.model, FeatureVector(ret.request[i]))

\* C2: preprocess and check_response always produce exactly the ten columns
\* of top_10_features, in order: a missing column is zero, any other is dropped.
C2_TenColumnsAlways ==
    /\ ret.op = "preprocess" =>
          /\ ret.status = "ok"
          /\ ret.features.columns = top_10_features
          /\ \A i \in 1..Len(ret.data) : ret.features.rows[i] = FeatureVector(ret.data[i])
    /\ (ServedRequest /\ ret.http.df # None) =>
          /\ ret.http.df.columns = top_10_features
          /\ Len(ret.request) >= 1 => ret.http.df.rows[1] = FeatureVector(ret.request[1])

\* C3: a single record is checked MES first, then TIPOVUELO, then OPERA, and
\* the error names the first field that fails; a valid record gets no error.
C3_FirstOffendingFieldWins ==
    (ServedRequest /\ ret.before.features # None /\ Len(ret.request) = 1) =>
        LET f == ret.request[1]
            file == ret.before.features
        IN  /\ ~ValidMes(f) => ret.http.status = 400 /\ Names(ret.http.detail, "MES")
            /\ (ValidMes(f) /\ ~ValidTipo(f)) =>
                  ret.http.status = 400 /\ Names(ret.http.detail, "TIPOVUELO")
            /\ (ValidMes(f) /\ ValidTipo(f) /\ ~ValidOpera(f, file)) =>
                  ret.http.status = 400 /\ Names(ret.http.detail, "OPERA")
            /\ ValidFlight(f, file) =>
                  /\ ret.http.status # 400
                  /\ \A field \in {"MES", "TIPOVUELO", "OPERA"} :
                        ~Names(ret.http.detail, field)

\* a record wrong in all three fields has been answered with the error naming MES
C3_Witness ==
    /\ ServedRequest
    /\ ret.before.features # None
    /\ Len(ret.request) = 1
    /\ ~ValidMes(ret.request[1])
    /\ ~ValidTipo(ret.request[1])
    /\ ~ValidOpera(ret.request[1], ret.before.features)
    /\ Names(ret.http.detail, "MES")

\* C4: a batch with an invalid record is rejected as a whole with the error of
\* its first invalid record: no labels, nothing encoded, nothing predicted.
C4_FirstInvalidRecordRejectsBatch ==
    (ServedRequest /\ ret.before.features # None
        /\ ~AllValid(ret.request, ret.before.features)) =>
        LET file == ret.before.features
            bad == {i \in 1..Len(ret.request) : ~ValidFlight(ret.request[i], file)}
            first == CHOOSE i \in bad : \A j \in bad : i <= j
        IN  /\ ret.http.status = 400
            /\ Names(ret.http.detail, FirstBadField(ret.request[first], file))
            /\ ret.http.predict = <<>>
            /\ ret.http.df = None
            /\ ret.http.trace = <<"Received", "Rejected">>

\* a batch of two records failing in different fields has been rejected with
\* the error of the earlier one
C4_Witness ==
    /\ ServedRequest
    /\ ret.before.features # None
    /\ ret.before.model # None
    /\ Len(ret.request) >= 2
    /\ ~ValidFlight(ret.request[1], ret.before.features)
    /\ ~ValidFlight(ret.request[2], ret.before.features)
    /\ FirstBadField(ret.request[1], ret.before.features)
          # FirstBadField(ret.request[2], ret.before.features)
    /\ ret.http.status = 400
    /\ ret.http.trace = <<"Received", "Rejected">>

\* a batch whose first record is valid and whose second is not has been rejected
C4_WitnessValidFirst ==
    /\ ServedRequest
    /\ ret.before.features # None
    /\ Len(ret.request) >= 2
    /\ ValidFlight(ret.request[1], ret.before.features)
    /\ ~ValidFlight(ret.request[2], ret.before.features)
    /\ ret.http.status = 400

\* C5: once training has completed, neither a prediction request nor a
\* preprocess without target column changes the persisted vocabulary or the
\* set of airlines the validator accepts.
C5_VocabularyFrozenAfterTraining ==
    [][(/\ modelFile # None
        /\ \/ ret'.op = "post_predict"
           \/ (ret'.op = "preprocess" /\ ret'.target_column = None))
       => /\ featuresFile'.columns = featuresFile.columns
          /\ KnownAirlines(featuresFile') = KnownAirlines(featuresFile)]_vars

\* C6: serving a request changes neither file, and the same request sent
\* again gets the same answer.
C6_PredictIdempotent ==
    ServedRequest =>
        /\ modelFile = ret.before.model
        /\ featuresFile = ret.before.features
        /\ ret.first # None =>
              /\ ret.http.status = ret.first.status
              /\ ret.http.detail = ret.first.detail
              /\ ret.http.predict = ret.first.predict

\* a request answered with labels has been sent again and answered
C6_Witness ==
    /\ ServedRequest
    /\ ret.first # None
    /\ ret.first.status = 200
    /\ Len(ret.request) >= 1
    /\ \E i \in 1..Len(ret.http.predict) : ret.http.predict[i] = 1

\* a request answered with a validation error has been sent again and answered
C6_WitnessError ==
    /\ ServedRequest
    /\ ret.first # None
    /\ ret.first.status = 400

====
